---- MODULE Spec2Model ----
(***************************************************************************)
(* A model of the two scripts of nba_clutch_players:                       *)
(*   clutch_player_analysis.py  analyze_clutch_player,                     *)
(*                              visualize_player_analysis                  *)
(*   compare_net_rating.py      compare_net_rating                         *)
(*                                                                         *)
(* Spec       one run of either function: player resolution, the season    *)
(*            loop with its endpoint requests, sleeps and exception        *)
(*            handlers, and the plotting call.  Every endpoint request     *)
(*            answers with a failure (an exception), an empty frame or a   *)
(*            row for the player.                                          *)
(* SpecRatio  the assist-to-turnover ratios of one season, computed from   *)
(*            the player's clutch row and regular-season row.              *)
(* SpecShots  the shot-distance binning of one season's shot frame.        *)
(* SpecViz    the season averages of visualize_player_analysis, over the   *)
(*            records analyze_clutch_player can build.                     *)
(* SpecSeasons the season list both functions start from: the list given   *)
(*            by the caller, or the default list built from current_year.  *)
(*                                                                         *)
(* Numbers that the scripts divide are kept as exact fractions <<n, d>>;   *)
(* 0/0 is NaN, as in pandas.  Floating-point rounding is not modelled.     *)
(***************************************************************************)
EXTENDS Integers, Sequences, FiniteSets, TLC

VARIABLES
    script,       \* which function runs: "analyze" or "compare"
    seasons,      \* the input season list, as the list 1..n of its positions
    pc,           \* position in the function body
    player_dict,  \* number of players the static lookup returned
    selection,    \* the text typed at the input() prompt
    player_id,    \* the resolved player id, NoPlayer before that
    player_info,  \* results['player_info']
    i,            \* index in seasons of the season being processed
    season_data,  \* the record being built for seasons[i]
    results,      \* results['clutch_stats'] (analyze) or results (compare)
    log,          \* the endpoint requests and sleeps executed so far, in order
    returned,     \* "running", or how the call ended: "None", "results", "raised"
                  \* (an exception left the function)
    plotted,      \* number of calls of the visualize function
    \* SpecRatio
    ratio_pc,       \* "off", "clutch", "regular", "done"
    player_clutch,  \* the player's row of the clutch frame: AST, TOV
    player_regular, \* the player's row of the regular-season frame: AST, TOV
    ast_to_tov,     \* the two ratios stored in season_data
    \* SpecShots
    shot_pc,        \* "off", "bin", "done"
    shot_df,        \* the shot frame: a list of rows SHOT_DISTANCE, SHOT_MADE_FLAG
    shot_distance,  \* season_data['shot_distance'], Absent when not stored
    \* SpecViz
    viz_pc,         \* "off", "rvc_loop", "dist_loop", "done"
    viz_n,          \* len(results['clutch_stats'])
    viz_k,          \* index of the record the running loop is at
    regular_avgs,   \* per metric, the sum of the regular-season values
    clutch_avgs,    \* per metric, the sum of the clutch values
    count,          \* records with a regular_vs_clutch section
    rvc_vals,       \* the averages plotted in panel 2, Unset when none
    distance_data,  \* per distance bin: the sums pct_fga, fg_pct, fga and count
    dist_vals,      \* per distance bin: the averages plotted in panel 3
    contributed,    \* history: how many records added a value to each sum
    \* SpecSeasons
    seasons_pc,     \* "off", "start", "comprehension", "done"
    seasons_arg,    \* the seasons parameter: None or a list of season strings
    current_year,   \* the configured current_year
    year,           \* the loop variable of the list comprehension
    season_list     \* the local seasons after lines 27-30, a list of strings

flowVars == <<script, seasons, pc, player_dict, selection, player_id, player_info,
              i, season_data, results, log, returned, plotted>>

ratioVars == <<ratio_pc, player_clutch, player_regular, ast_to_tov>>

shotVars == <<shot_pc, shot_df, shot_distance>>

vizVars == <<viz_pc, viz_n, viz_k, regular_avgs, clutch_avgs, count, rvc_vals,
             distance_data, dist_vals, contributed>>

seasonVars == <<seasons_pc, seasons_arg, current_year, year, season_list>>

vars == <<flowVars, ratioVars, shotVars, vizVars, seasonVars>>

----------------------------------------------------------------------------
(* Bounds of the model. *)

MaxSeasons == 2
MaxMatches == 2
MaxStat == 2
MaxShots == 2
YearSpan == 25

----------------------------------------------------------------------------
(* Responses of an endpoint request. *)

Fail  == [out |-> "fail", val |-> 0]
Empty == [out |-> "empty", val |-> 0]
Row(v) == [out |-> "row", val |-> v]

(* analyze_clutch_player copies the columns of a row as they are: one row  *)
(* stands for all of them.                                                 *)
Responses == {Fail, Empty, Row(1)}

(* The player's NET_RATING that the league's data holds for a season and a *)
(* season type: a different number for each, some negative.                *)
NET_RATING(kind, s) ==
    CASE kind = "cmp_regular"  -> 10 * s + 1
      [] kind = "cmp_clutch"   -> 0 - (10 * s + 2)
      [] kind = "cmp_playoffs" -> 10 * s + 3

(* compare_net_rating keeps the NET_RATING of the row. *)
NetRatingResponses(kind, s) == {Fail, Empty, Row(NET_RATING(kind, s))}

None == <<>>
Some(v) == <<v>>

NoPlayer == 0
PlayerIdOf(k) == 100 + k

(* What the user may type at the prompt: a text that int() rejects, or an   *)
(* integer from below 0 to above the last index.                           *)
Selections(matches) ==
    {[isInt |-> FALSE, v |-> 0]} \cup {[isInt |-> TRUE, v |-> k] : k \in -1..matches}

NoSelection == [isInt |-> FALSE, v |-> 0]

(* Log entries. *)
Req(kind, s, r) == [ev |-> "req", kind |-> kind, season |-> s, out |-> r.out, secs |-> 0]
Sleep(s, secs)  == [ev |-> "sleep", kind |-> "sleep", season |-> s, out |-> "", secs |-> secs]

(* time.sleep left out: the variant of time_sleep that does not wait. *)
time_sleep_skipped(l, s, secs) == l

time_sleep(l, s, secs) == Append(l, Sleep(s, secs))

(* season_data[key] = value *)
SetField(sd, key, value) ==
    [k \in DOMAIN sd \cup {key} |-> IF k = key THEN value ELSE sd[k]]

----------------------------------------------------------------------------
(* Player resolution, the same code in both functions. *)

(* ResolvePlayer with the range test one too wide: selection <= len. *)
ResolvePlayer_OffByOne(matches, sel) ==
    IF matches = 0 THEN NoPlayer
    ELSE IF matches > 1
         THEN IF ~sel.isInt THEN NoPlayer
              ELSE IF 0 <= sel.v /\ sel.v <= matches
                   THEN PlayerIdOf(sel.v)
                   ELSE NoPlayer
         ELSE PlayerIdOf(0)

ResolvePlayer(matches, sel) ==
    IF matches = 0 THEN NoPlayer
    ELSE IF matches > 1
         THEN IF ~sel.isInt THEN NoPlayer                     \* ValueError
              ELSE IF 0 <= sel.v /\ sel.v < matches
                   THEN PlayerIdOf(sel.v)
                   ELSE NoPlayer
         ELSE PlayerIdOf(0)

ReturnNone ==
    /\ pc' = "done"
    /\ returned' = "None"

Resolve ==
    /\ pc = "resolve"
    /\ \E matches \in 0..MaxMatches :
       \E sel \in (IF matches > 1 THEN Selections(matches) ELSE {NoSelection}) :
          /\ player_dict' = matches
          /\ selection' = sel
          /\ player_id' = ResolvePlayer(matches, sel)
          /\ IF ResolvePlayer(matches, sel) = NoPlayer
             THEN ReturnNone
             ELSE /\ pc' = IF script = "analyze" THEN "info" ELSE "loop"
                  /\ UNCHANGED returned
    /\ UNCHANGED <<script, seasons, player_info, i, season_data, results, log, plotted>>
    /\ UNCHANGED <<ratioVars, shotVars, vizVars, seasonVars>>

----------------------------------------------------------------------------
(* analyze_clutch_player *)

(* The player-info frame is empty, or the request raised: the function     *)
(* prints a message and returns None.                                      *)
OnPlayerInfoMissing ==
    /\ ReturnNone
    /\ UNCHANGED player_info

PlayerInfo ==
    /\ pc = "info"
    /\ \E r \in Responses :
          /\ log' = Append(log, Req("player_info", 0, r))
          /\ IF r.out = "row"
             THEN /\ player_info' = Some(r.val)
                  /\ pc' = "loop"
                  /\ UNCHANGED returned
             ELSE OnPlayerInfoMissing
    /\ UNCHANGED <<script, seasons, player_dict, selection, player_id, i,
                   season_data, results, plotted>>
    /\ UNCHANGED <<ratioVars, shotVars, vizVars, seasonVars>>

(* for season in seasons: season_data = {'season': season}; time.sleep(5) *)
SeasonStart ==
    /\ script = "analyze"
    /\ pc = "loop"
    /\ i <= Len(seasons)
    /\ season_data' = ("season" :> Some(seasons[i]))
    /\ log' = time_sleep(log, seasons[i], 5)
    /\ pc' = "clutch_base"
    /\ UNCHANGED <<script, seasons, player_dict, selection, player_id, player_info,
                   i, results, returned, plotted>>
    /\ UNCHANGED <<ratioVars, shotVars, vizVars, seasonVars>>

(* The season-level handler missing: the exception leaves the function. *)
OnSeasonError_Propagate ==
    /\ pc' = "done"
    /\ returned' = "raised"
    /\ UNCHANGED <<i, results>>

(* The season-level handler starting the season's requests again. *)
OnSeasonError_Retry ==
    /\ pc' = "clutch_base"
    /\ UNCHANGED <<i, results, returned>>

(* The season-level handler appending the record built so far. *)
OnSeasonError_Append ==
    /\ results' = Append(results, season_data)
    /\ pc' = "loop"
    /\ i' = i + 1
    /\ UNCHANGED returned

(* The season-level handler: except Exception around the whole season body. *)
OnSeasonError ==
    /\ pc' = "loop"
    /\ i' = i + 1
    /\ UNCHANGED <<results, returned>>

(* The else branch without its continue: the season goes on. *)
OnNoClutchData_FallThrough ==
    /\ pc' = "shot"
    /\ UNCHANGED <<i, results, returned>>

(* The else branch of "if not player_clutch.empty": continue. *)
OnNoClutchData ==
    /\ pc' = "loop"
    /\ i' = i + 1
    /\ UNCHANGED <<results, returned>>

WithClutchBasic(sd, r) ==
    IF r.out = "row" THEN SetField(sd, "clutch_basic", Some(r.val)) ELSE sd

ClutchBase ==
    /\ pc = "clutch_base"
    /\ \E r \in Responses :
          LET issued == Append(log, Req("clutch_base", seasons[i], r)) IN
          CASE r.out = "fail" ->
                 /\ log' = issued
                 /\ OnSeasonError
                 /\ UNCHANGED season_data
            [] r.out = "empty" ->
                 /\ log' = issued
                 /\ OnNoClutchData
                 /\ season_data' = WithClutchBasic(season_data, r)
            [] r.out = "row" ->
                 /\ season_data' = WithClutchBasic(season_data, r)
                 /\ log' = time_sleep(issued, seasons[i], 5)
                 /\ pc' = "clutch_adv"
                 /\ UNCHANGED <<i, results, returned>>
    /\ UNCHANGED <<script, seasons, player_dict, selection, player_id, player_info,
                   plotted>>
    /\ UNCHANGED <<ratioVars, shotVars, vizVars, seasonVars>>

(* clutch_advanced stored without the test of the frame. *)
WithClutchAdvanced_Always(sd, r) == SetField(sd, "clutch_advanced", Some(r.val))

WithClutchAdvanced(sd, r) ==
    IF r.out = "row" THEN SetField(sd, "clutch_advanced", Some(r.val)) ELSE sd

ClutchAdv ==
    /\ pc = "clutch_adv"
    /\ \E r \in Responses :
          /\ log' = Append(log, Req("clutch_adv", seasons[i], r))
          /\ IF r.out = "fail"
             THEN /\ OnSeasonError
                  /\ UNCHANGED season_data
             ELSE /\ season_data' = WithClutchAdvanced(season_data, r)
                  /\ pc' = "shot"
                  /\ UNCHANGED <<i, results, returned>>
    /\ UNCHANGED <<script, seasons, player_dict, selection, player_id, player_info,
                   plotted>>
    /\ UNCHANGED <<ratioVars, shotVars, vizVars, seasonVars>>

(* The inner handler leaving the season without appending its record. *)
OnSectionError_DropSeason ==
    /\ pc' = "loop"
    /\ i' = i + 1
    /\ UNCHANGED <<results, season_data, returned>>

(* The inner handler, around the shot-chart and the regular-season request, *)
(* followed by results['clutch_stats'].append(season_data).                *)
OnSectionError ==
    /\ results' = Append(results, season_data)
    /\ pc' = "loop"
    /\ i' = i + 1
    /\ UNCHANGED <<season_data, returned>>

WithShotDistance(sd, r) ==
    IF r.out = "row" THEN SetField(sd, "shot_distance", Some(r.val)) ELSE sd

ShotChart ==
    /\ pc = "shot"
    /\ \E r \in Responses :
          LET issued == Append(time_sleep(log, seasons[i], 5),
                               Req("shot_chart", seasons[i], r)) IN
          IF r.out = "fail"
          THEN /\ log' = issued
               /\ OnSectionError
          ELSE /\ season_data' = WithShotDistance(season_data, r)
               /\ log' = time_sleep(issued, seasons[i], 5)
               /\ pc' = "regular"
               /\ UNCHANGED <<i, results, returned>>
    /\ UNCHANGED <<script, seasons, player_dict, selection, player_id, player_info,
                   plotted>>
    /\ UNCHANGED <<ratioVars, shotVars, vizVars, seasonVars>>

(* if not player_regular.empty and not player_clutch.empty *)
WithRegularVsClutch(sd, r) ==
    IF r.out = "row" /\ "clutch_basic" \in DOMAIN sd
    THEN SetField(sd, "regular_vs_clutch", Some(r.val))
    ELSE sd

RegularStats ==
    /\ pc = "regular"
    /\ \E r \in Responses :
          /\ log' = Append(log, Req("regular", seasons[i], r))
          /\ IF r.out = "fail"
             THEN OnSectionError
             ELSE /\ season_data' = WithRegularVsClutch(season_data, r)
                  /\ results' = Append(results, season_data')
                  /\ pc' = "loop"
                  /\ i' = i + 1
                  /\ UNCHANGED returned
    /\ UNCHANGED <<script, seasons, player_dict, selection, player_id, player_info,
                   plotted>>
    /\ UNCHANGED <<ratioVars, shotVars, vizVars, seasonVars>>

(* Finish without the test of results['clutch_stats']: the plot is always  *)
(* called.                                                                 *)
Finish_PlotAlways ==
    /\ script = "analyze"
    /\ pc = "loop"
    /\ i > Len(seasons)
    /\ plotted' = plotted + 1
    /\ returned' = "results"
    /\ pc' = "done"
    /\ UNCHANGED <<script, seasons, player_dict, selection, player_id, player_info,
                   i, season_data, results, log>>
    /\ UNCHANGED <<ratioVars, shotVars, vizVars, seasonVars>>

(* if results['clutch_stats']: visualize_player_analysis(results); return results *)
Finish ==
    /\ script = "analyze"
    /\ pc = "loop"
    /\ i > Len(seasons)
    /\ plotted' = IF results # <<>> THEN plotted + 1 ELSE plotted
    /\ returned' = "results"
    /\ pc' = "done"
    /\ UNCHANGED <<script, seasons, player_dict, selection, player_id, player_info,
                   i, season_data, results, log>>
    /\ UNCHANGED <<ratioVars, shotVars, vizVars, seasonVars>>

----------------------------------------------------------------------------
(* compare_net_rating *)

CmpSeasonStart ==
    /\ script = "compare"
    /\ pc = "loop"
    /\ i <= Len(seasons)
    /\ season_data' = ("Season" :> Some(seasons[i]))
    /\ pc' = "cmp_regular"
    /\ UNCHANGED <<script, seasons, player_dict, selection, player_id, player_info,
                   i, results, log, returned, plotted>>
    /\ UNCHANGED <<ratioVars, shotVars, vizVars, seasonVars>>

(* The column set to 0, not to None, when there is no row or the request   *)
(* raised.                                                                 *)
NetRatingOrNone_Zero(r) == IF r.out = "row" THEN Some(r.val) ELSE Some(0)

(* The NET_RATING of the player's row; None when the frame has no row for   *)
(* the player and None when the request raised.                            *)
NetRatingOrNone(r) == IF r.out = "row" THEN Some(r.val) ELSE None

CmpRegular ==
    /\ pc = "cmp_regular"
    /\ \E r \in NetRatingResponses("cmp_regular", seasons[i]) :
          /\ log' = Append(log, Req("cmp_regular", seasons[i], r))
          /\ season_data' = SetField(season_data, "Regular Season", NetRatingOrNone(r))
    /\ pc' = "cmp_clutch"
    /\ UNCHANGED <<script, seasons, player_dict, selection, player_id, player_info,
                   i, results, returned, plotted>>
    /\ UNCHANGED <<ratioVars, shotVars, vizVars, seasonVars>>

CmpClutch ==
    /\ pc = "cmp_clutch"
    /\ \E r \in NetRatingResponses("cmp_clutch", seasons[i]) :
          /\ log' = Append(log, Req("cmp_clutch", seasons[i], r))
          /\ season_data' = SetField(season_data, "Clutch", NetRatingOrNone(r))
    /\ pc' = "cmp_playoffs"
    /\ UNCHANGED <<script, seasons, player_dict, selection, player_id, player_info,
                   i, results, returned, plotted>>
    /\ UNCHANGED <<ratioVars, shotVars, vizVars, seasonVars>>

(* ... results.append(season_data); time.sleep(1) *)
CmpPlayoffs ==
    /\ pc = "cmp_playoffs"
    /\ \E r \in NetRatingResponses("cmp_playoffs", seasons[i]) :
          /\ season_data' = SetField(season_data, "Playoffs", NetRatingOrNone(r))
          /\ log' = time_sleep(Append(log, Req("cmp_playoffs", seasons[i], r)),
                               seasons[i], 1)
    /\ results' = Append(results, season_data')
    /\ i' = i + 1
    /\ pc' = "loop"
    /\ UNCHANGED <<script, seasons, player_dict, selection, player_id, player_info,
                   returned, plotted>>
    /\ UNCHANGED <<ratioVars, shotVars, vizVars, seasonVars>>

(* results_df = pd.DataFrame(results); visualize_net_rating_comparison(...) *)
(* The frame of an empty list has no column, and df.melt(id_vars=['Season']) *)
(* in the visualize function then raises KeyError, which nothing catches.  *)
CmpFinish ==
    /\ script = "compare"
    /\ pc = "loop"
    /\ i > Len(seasons)
    /\ plotted' = plotted + 1
    /\ returned' = IF Len(results) = 0 THEN "raised" ELSE "results"
    /\ pc' = "done"
    /\ UNCHANGED <<script, seasons, player_dict, selection, player_id, player_info,
                   i, season_data, results, log>>
    /\ UNCHANGED <<ratioVars, shotVars, vizVars, seasonVars>>

----------------------------------------------------------------------------
(* Exact fractions for the divisions of the scripts. *)

RECURSIVE GCD(_, _)
GCD(a, b) == IF b = 0 THEN a ELSE GCD(b, a % b)

NaN == <<0, 0>>

(* a / b on two non-negative numbers of a frame; 0 / 0 is NaN. *)
Frac(a, b) ==
    IF b = 0 THEN (IF a = 0 THEN NaN ELSE <<1, 0>>)
    ELSE <<a \div GCD(a, b), b \div GCD(a, b)>>

IsNaN(x) == x = NaN

FracAdd(x, y) ==
    IF IsNaN(x) \/ IsNaN(y) THEN NaN
    ELSE Frac(x[1] * y[2] + y[1] * x[2], x[2] * y[2])

Zero == Frac(0, 1)
One == Frac(1, 1)

----------------------------------------------------------------------------
(* The assist-to-turnover ratios of analyze_clutch_player. *)

Unset == <<>>

StatRows == [AST : 0..MaxStat, TOV : 0..MaxStat]

(* The ratio defaulting to 0, not to the assists, when turnovers are zero. *)
ClutchAstToTov_ZeroDefault(row) ==
    IF row.TOV > 0 THEN Frac(row.AST, row.TOV) ELSE Zero

(* season_data['clutch_basic']['ast_to_tov'] *)
ClutchAstToTov(row) ==
    IF row.TOV > 0
    THEN Frac(row.AST, row.TOV)
    ELSE IF row.AST > 0 THEN Frac(row.AST, 1) ELSE Zero

(* season_data['regular_vs_clutch']['regular']['ast_to_tov'] *)
RegularAstToTov(row) ==
    IF row.TOV > 0 THEN Frac(row.AST, row.TOV) ELSE Frac(row.AST, 1)

ComputeClutchRatio ==
    /\ ratio_pc = "clutch"
    /\ ast_to_tov' = [ast_to_tov EXCEPT !.clutch = ClutchAstToTov(player_clutch)]
    /\ ratio_pc' = "regular"
    /\ UNCHANGED <<player_clutch, player_regular>>
    /\ UNCHANGED <<flowVars, shotVars, vizVars, seasonVars>>

ComputeRegularRatio ==
    /\ ratio_pc = "regular"
    /\ ast_to_tov' = [ast_to_tov EXCEPT !.regular = RegularAstToTov(player_regular)]
    /\ ratio_pc' = "done"
    /\ UNCHANGED <<player_clutch, player_regular>>
    /\ UNCHANGED <<flowVars, shotVars, vizVars, seasonVars>>

RatioOff ==
    /\ ratio_pc = "off"
    /\ player_clutch = [AST |-> 0, TOV |-> 0]
    /\ player_regular = [AST |-> 0, TOV |-> 0]
    /\ ast_to_tov = [clutch |-> Unset, regular |-> Unset]

----------------------------------------------------------------------------
(* The shot-distance binning of analyze_clutch_player. *)

(* SHOT_DISTANCE is a whole number of feet; these are the edges of the     *)
(* bins and their neighbours.                                              *)
Distances == {0, 1, 3, 4, 10, 11, 16, 17, 23, 24, 40, 41}

ShotRows == [SHOT_DISTANCE : Distances, SHOT_MADE_FLAG : {0, 1}]

ShotFrames == UNION {[1..n -> ShotRows] : n \in 0..MaxShots}

(* pd.cut(..., bins=[0, 3, 10, 16, 23, 40], labels=[...]) *)
BinEdges == <<0, 3, 10, 16, 23, 40>>
BinLabels == <<"0-3 ft", "3-10 ft", "10-16 ft", "16-23 ft", "23+ ft">>

NoBin == "nan"

(* pd.cut with its defaults: each bin excludes its left edge and includes  *)
(* its right edge; a value in no bin gets no label.                        *)
Cut(d) ==
    IF \E k \in 1..5 : BinEdges[k] < d /\ d <= BinEdges[k + 1]
    THEN BinLabels[CHOOSE k \in 1..5 : BinEdges[k] < d /\ d <= BinEdges[k + 1]]
    ELSE NoBin

RowsIn(df, label) == {j \in 1..Len(df) : Cut(df[j].SHOT_DISTANCE) = label}

RECURSIVE SumMade(_, _)
SumMade(df, rows) ==
    IF rows = {} THEN 0
    ELSE LET j == CHOOSE x \in rows : TRUE
         IN df[j].SHOT_MADE_FLAG + SumMade(df, rows \ {j})

RECURSIVE SumOver(_, _)
SumOver(f, keys) ==
    IF keys = {} THEN 0
    ELSE LET k == CHOOSE x \in keys : TRUE IN f[k] + SumOver(f, keys \ {k})

(* shot_df.groupby('DISTANCE_BIN').agg({'SHOT_MADE_FLAG': ['count', 'sum']}) *)
(* with the two percentage columns.  The group key is categorical and the  *)
(* grouping keeps every category (pandas 2, observed=False): a bin nobody  *)
(* shot from is a row with FGA = 0; rows without a label are left out.     *)
DistanceStats(df) ==
    LET labels == {BinLabels[k] : k \in 1..5}
        FGA == [l \in labels |-> Cardinality(RowsIn(df, l))]
        FGM == [l \in labels |-> SumMade(df, RowsIn(df, l))]
    IN [l \in labels |->
           [FGA |-> FGA[l],
            FGM |-> FGM[l],
            FG_PCT |-> Frac(FGM[l], FGA[l]),
            FGA_FREQUENCY |-> Frac(FGA[l], SumOver(FGA, labels))]]

(* str(idx).lower().replace(' ', '_') *)
GroupName(label) ==
    CASE label = "0-3 ft"   -> "0-3_ft"
      [] label = "3-10 ft"  -> "3-10_ft"
      [] label = "10-16 ft" -> "10-16_ft"
      [] label = "16-23 ft" -> "16-23_ft"
      [] label = "23+ ft"   -> "23+_ft"

Absent == <<>>

(* season_data['shot_distance'] for a shot frame with rows. *)
ShotDistance(df) ==
    LET stats == DistanceStats(df) IN
    [g \in {GroupName(l) : l \in DOMAIN stats} |->
        LET l == CHOOSE x \in DOMAIN stats : GroupName(x) = g IN
        [fgm |-> stats[l].FGM,
         fga |-> stats[l].FGA,
         fg_pct |-> stats[l].FG_PCT,
         pct_fga |-> stats[l].FGA_FREQUENCY]]

(* if not shot_df.empty: ... *)
BinShots ==
    /\ shot_pc = "bin"
    /\ shot_distance' = IF Len(shot_df) > 0 THEN ShotDistance(shot_df) ELSE Absent
    /\ shot_pc' = "done"
    /\ UNCHANGED shot_df
    /\ UNCHANGED <<flowVars, ratioVars, vizVars, seasonVars>>

ShotsOff ==
    /\ shot_pc = "off"
    /\ shot_df = <<>>
    /\ shot_distance = Absent

----------------------------------------------------------------------------
(* The season averages of visualize_player_analysis: panel 2 (regular      *)
(* season against clutch) and panel 3 (shot distance).  Each loop reads    *)
(* one record of results['clutch_stats'] per step; the sections of the     *)
(* records are inputs, drawn when the loop reads them.                     *)

metrics == {"pts", "fg_pct", "fg3_pct", "ft_pct", "ast", "tov", "ast_to_tov"}

(* The per-36 values a regular_vs_clutch section can hold. *)
MetricValues == {1, 3}

NoSection == <<>>

(* The regular_vs_clutch sections a record can hold; one value stands for  *)
(* all metrics of a side.                                                  *)
RvcSections ==
    {[regular |-> [m \in metrics |-> r], clutch |-> [m \in metrics |-> c]] :
        r \in MetricValues, c \in MetricValues}

Shot(d, made) == [SHOT_DISTANCE |-> d, SHOT_MADE_FLAG |-> made]

(* The shot frames behind the shot_distance sections of the records: one   *)
(* bin or two, makes and misses, and a frame whose shots are in no bin.    *)
VizShotFrames ==
    {<<Shot(2, 1)>>,
     <<Shot(2, 1), Shot(2, 0)>>,
     <<Shot(12, 0)>>,
     <<Shot(2, 0), Shot(12, 1), Shot(12, 1)>>,
     <<Shot(0, 1)>>}

(* x / n for a sum x and a count n > 0. *)
FracDiv(x, n) == IF IsNaN(x) THEN NaN ELSE Frac(x[1], x[2] * n)

HasSection(x) == DOMAIN x # {}

(* One pass of "for season_data in results['clutch_stats']" of panel 2. *)
VizRvcSeason ==
    /\ viz_pc = "rvc_loop"
    /\ viz_k <= viz_n
    /\ \E rvc \in RvcSections \cup {NoSection} :
          IF HasSection(rvc)
          THEN /\ count' = count + 1
               /\ regular_avgs' = [m \in metrics |-> regular_avgs[m] + rvc.regular[m]]
               /\ clutch_avgs' = [m \in metrics |-> clutch_avgs[m] + rvc.clutch[m]]
               /\ contributed' = [contributed EXCEPT !.rvc = @ + 1]
          ELSE UNCHANGED <<count, regular_avgs, clutch_avgs, contributed>>
    /\ viz_k' = viz_k + 1
    /\ UNCHANGED <<viz_pc, viz_n, rvc_vals, distance_data, dist_vals>>
    /\ UNCHANGED <<flowVars, ratioVars, shotVars, seasonVars>>

(* if count > 0: the plotted values regular_avgs[m] / count and            *)
(* clutch_avgs[m] / count.                                                 *)
VizRvcAverage ==
    /\ viz_pc = "rvc_loop"
    /\ viz_k > viz_n
    /\ rvc_vals' = IF count > 0
                   THEN [regular |-> [m \in metrics |-> Frac(regular_avgs[m], count)],
                         clutch |-> [m \in metrics |-> Frac(clutch_avgs[m], count)]]
                   ELSE Unset
    /\ viz_pc' = "dist_loop"
    /\ viz_k' = 1
    /\ UNCHANGED <<viz_n, regular_avgs, clutch_avgs, count, distance_data, dist_vals,
                   contributed>>
    /\ UNCHANGED <<flowVars, ratioVars, shotVars, seasonVars>>

NewDistance == [pct_fga |-> Zero, fg_pct |-> Zero, count |-> 0, fga |-> 0]

(* The body of "for distance, stats in season_data['shot_distance'].items()" *)
(* for one distance.                                                       *)
AddDistance(acc, stats) ==
    [pct_fga |-> FracAdd(acc.pct_fga, stats.pct_fga),
     fg_pct  |-> IF stats.fga > 0 THEN FracAdd(acc.fg_pct, stats.fg_pct) ELSE acc.fg_pct,
     fga     |-> IF stats.fga > 0 THEN acc.fga + stats.fga ELSE acc.fga,
     count   |-> acc.count + 1]

(* One pass of "for season_data in results['clutch_stats']" of panel 3. *)
VizDistSeason ==
    /\ viz_pc = "dist_loop"
    /\ viz_k <= viz_n
    /\ \E sd \in {ShotDistance(df) : df \in VizShotFrames} \cup {NoSection} :
          IF HasSection(sd)
          THEN /\ distance_data' =
                     [d \in DOMAIN distance_data \cup DOMAIN sd |->
                         IF d \in DOMAIN sd
                         THEN AddDistance(IF d \in DOMAIN distance_data
                                          THEN distance_data[d] ELSE NewDistance, sd[d])
                         ELSE distance_data[d]]
               /\ contributed' =
                     [contributed EXCEPT
                        !.pct_fga = [d \in DOMAIN @ |-> IF d \in DOMAIN sd THEN @[d] + 1 ELSE @[d]],
                        !.fg_pct = [d \in DOMAIN @ |->
                                       IF d \in DOMAIN sd /\ sd[d].fga > 0 THEN @[d] + 1 ELSE @[d]]]
          ELSE UNCHANGED <<distance_data, contributed>>
    /\ viz_k' = viz_k + 1
    /\ UNCHANGED <<viz_pc, viz_n, regular_avgs, clutch_avgs, count, rvc_vals, dist_vals>>
    /\ UNCHANGED <<flowVars, ratioVars, shotVars, seasonVars>>

(* "for distance, stats in distance_data.items(): if stats['count'] > 0":  *)
(* the plotted pct_fga and fg_pct of each distance, fg_pct None when no    *)
(* shot was attempted from it.                                             *)
VizDistAverage ==
    /\ viz_pc = "dist_loop"
    /\ viz_k > viz_n
    /\ dist_vals' =
          [d \in {x \in DOMAIN distance_data : distance_data[x].count > 0} |->
              [pct_fga |-> FracDiv(distance_data[d].pct_fga, distance_data[d].count),
               fg_pct  |-> IF distance_data[d].fga > 0
                           THEN FracDiv(distance_data[d].fg_pct, distance_data[d].count)
                           ELSE None]]
    /\ viz_pc' = "done"
    /\ UNCHANGED <<viz_n, viz_k, regular_avgs, clutch_avgs, count, rvc_vals,
                   distance_data, contributed>>
    /\ UNCHANGED <<flowVars, ratioVars, shotVars, seasonVars>>

VizStart(n) ==
    /\ viz_n = n
    /\ viz_k = 1
    /\ regular_avgs = [m \in metrics |-> 0]
    /\ clutch_avgs = [m \in metrics |-> 0]
    /\ count = 0
    /\ rvc_vals = Unset
    /\ distance_data = <<>>
    /\ dist_vals = <<>>
    /\ contributed = [rvc |-> 0,
                      pct_fga |-> [g \in {GroupName(BinLabels[k]) : k \in 1..5} |-> 0],
                      fg_pct |-> [g \in {GroupName(BinLabels[k]) : k \in 1..5} |-> 0]]

VizOff ==
    /\ viz_pc = "off"
    /\ VizStart(0)

----------------------------------------------------------------------------
(* The season list, the same code in both functions (lines 27-30 and       *)
(* 26-29).  A Python string is the sequence of its characters.             *)

(* current_year = 2024  # Update this as needed *)
CurrentYear == 2024

(* The values current_year is configured with: 2024 and the years around   *)
(* it, the turn of the century among them.                                 *)
CurrentYears == (CurrentYear - YearSpan)..(CurrentYear + YearSpan)

Unassigned == 0

Digits == <<"0", "1", "2", "3", "4", "5", "6", "7", "8", "9">>

(* str(n) for n >= 0 *)
RECURSIVE str(_)
str(n) == IF n < 10 THEN <<Digits[n + 1]>> ELSE Append(str(n \div 10), Digits[(n % 10) + 1])

(* s[-2:] *)
LastTwo(s) == SubSeq(s, IF Len(s) > 2 THEN Len(s) - 1 ELSE 1, Len(s))

(* The format with the start year written in place of year - 1. *)
FormatSeason_SameYear(y) == str(y) \o <<"-">> \o LastTwo(str(y))

(* f"{year-1}-{str(year)[-2:]}" *)
FormatSeason(y) == str(y - 1) \o <<"-">> \o LastTwo(str(y))

NoneArg == [given |-> FALSE, list |-> <<>>]
Given(l) == [given |-> TRUE, list |-> l]

(* The lists a caller passes: none, the empty list, the docstring's.       *)
SeasonArgs ==
    {NoneArg,
     Given(<<>>),
     Given(<< <<"2", "0", "2", "0", "-", "2", "1">>,
              <<"2", "0", "2", "1", "-", "2", "2">> >>)}

(* if seasons is None: current_year = ...; the comprehension starts at     *)
(* range(current_year-4, current_year+1)[0].  Otherwise the list given is  *)
(* the list used.                                                          *)
SeasonsStart ==
    /\ seasons_pc = "start"
    /\ IF seasons_arg.given
       THEN /\ season_list' = seasons_arg.list
            /\ seasons_pc' = "done"
            /\ UNCHANGED <<current_year, year>>
       ELSE \E cy \in CurrentYears :
               /\ current_year' = cy
               /\ year' = cy - 4
               /\ season_list' = <<>>
               /\ seasons_pc' = "comprehension"
    /\ UNCHANGED seasons_arg
    /\ UNCHANGED <<flowVars, ratioVars, shotVars, vizVars>>

(* One element of [f"..." for year in range(current_year-4, current_year+1)] *)
SeasonsNext ==
    /\ seasons_pc = "comprehension"
    /\ year < current_year + 1
    /\ season_list' = Append(season_list, FormatSeason(year))
    /\ year' = year + 1
    /\ UNCHANGED <<seasons_pc, seasons_arg, current_year>>
    /\ UNCHANGED <<flowVars, ratioVars, shotVars, vizVars>>

(* The range is exhausted: seasons is the list built. *)
SeasonsEnd ==
    /\ seasons_pc = "comprehension"
    /\ ~(year < current_year + 1)
    /\ seasons_pc' = "done"
    /\ UNCHANGED <<seasons_arg, current_year, year, season_list>>
    /\ UNCHANGED <<flowVars, ratioVars, shotVars, vizVars>>

SeasonsOff ==
    /\ seasons_pc = "off"
    /\ seasons_arg = NoneArg
    /\ current_year = Unassigned
    /\ year = Unassigned
    /\ season_list = <<>>

----------------------------------------------------------------------------

SeasonLists == {[k \in 1..n |-> k] : n \in 0..MaxSeasons}

Init ==
    /\ script \in {"analyze", "compare"}
    /\ seasons \in SeasonLists
    /\ pc = "resolve"
    /\ player_dict = 0
    /\ selection = NoSelection
    /\ player_id = NoPlayer
    /\ player_info = None
    /\ i = 1
    /\ season_data = <<>>
    /\ results = <<>>
    /\ log = <<>>
    /\ returned = "running"
    /\ plotted = 0
    /\ RatioOff
    /\ ShotsOff
    /\ VizOff
    /\ SeasonsOff

Next ==
    \/ Resolve
    \/ PlayerInfo
    \/ SeasonStart
    \/ ClutchBase
    \/ ClutchAdv
    \/ ShotChart
    \/ RegularStats
    \/ Finish
    \/ CmpSeasonStart
    \/ CmpRegular
    \/ CmpClutch
    \/ CmpPlayoffs
    \/ CmpFinish

Spec == Init /\ [][Next]_vars

FlowOff ==
    /\ script = "analyze"
    /\ seasons = <<>>
    /\ pc = "off"
    /\ player_dict = 0
    /\ selection = NoSelection
    /\ player_id = NoPlayer
    /\ player_info = None
    /\ i = 1
    /\ season_data = <<>>
    /\ results = <<>>
    /\ log = <<>>
    /\ returned = "running"
    /\ plotted = 0

InitRatio ==
    /\ FlowOff
    /\ ShotsOff
    /\ VizOff
    /\ SeasonsOff
    /\ ratio_pc = "clutch"
    /\ player_clutch \in StatRows
    /\ player_regular \in StatRows
    /\ ast_to_tov = [clutch |-> Unset, regular |-> Unset]

NextRatio == ComputeClutchRatio \/ ComputeRegularRatio

SpecRatio == InitRatio /\ [][NextRatio]_vars

InitShots ==
    /\ FlowOff
    /\ RatioOff
    /\ VizOff
    /\ SeasonsOff
    /\ shot_pc = "bin"
    /\ shot_df \in ShotFrames
    /\ shot_distance = Absent

NextShots == BinShots

SpecShots == InitShots /\ [][NextShots]_vars

InitViz ==
    /\ FlowOff
    /\ RatioOff
    /\ ShotsOff
    /\ SeasonsOff
    /\ viz_pc = "rvc_loop"
    /\ \E n \in 0..MaxSeasons : VizStart(n)

NextViz == VizRvcSeason \/ VizRvcAverage \/ VizDistSeason \/ VizDistAverage

SpecViz == InitViz /\ [][NextViz]_vars

InitSeasons ==
    /\ FlowOff
    /\ RatioOff
    /\ ShotsOff
    /\ VizOff
    /\ seasons_pc = "start"
    /\ seasons_arg \in SeasonArgs
    /\ current_year = Unassigned
    /\ year = Unassigned
    /\ season_list = <<>>

NextSeasons == SeasonsStart \/ SeasonsNext \/ SeasonsEnd

SpecSeasons == InitSeasons /\ [][NextSeasons]_vars

----------------------------------------------------------------------------
(* Reading the log and the records. *)

IsReq(e) == e.ev = "req"

Requests == SelectSeq(log, IsReq)

SeasonRequests(s) == LET Of(e) == e.ev = "req" /\ e.season = s IN SelectSeq(log, Of)

IssuedIn(reqs, kind) == \E j \in 1..Len(reqs) : reqs[j].kind = kind

AnsweredIn(reqs, kind, out) ==
    \E j \in 1..Len(reqs) : reqs[j].kind = kind /\ reqs[j].out = out

Issued(kind, s) == IssuedIn(SeasonRequests(s), kind)

Answered(kind, s, out) == AnsweredIn(SeasonRequests(s), kind, out)

FirstKind == IF script = "analyze" THEN "clutch_base" ELSE "cmp_regular"

Attempts == LET First(e) == e.ev = "req" /\ e.kind = FirstKind IN SelectSeq(log, First)

SeasonKey == IF script = "analyze" THEN "season" ELSE "Season"

(* The records built so far: those appended, and the one under construction. *)
Records == {results[j] : j \in 1..Len(results)} \cup
           (IF DOMAIN season_data = {} THEN {} ELSE {season_data})

HasRecord(s) == \E j \in 1..Len(results) : results[j][SeasonKey] = Some(s)

RecordOf(s) == results[CHOOSE j \in 1..Len(results) : results[j][SeasonKey] = Some(s)]

(* The data fields of a record and the request that feeds each. *)
FeedOf(f) ==
    CASE f = "clutch_basic"      -> "clutch_base"
      [] f = "clutch_advanced"   -> "clutch_adv"
      [] f = "shot_distance"     -> "shot_chart"
      [] f = "regular_vs_clutch" -> "regular"
      [] f = "Regular Season"    -> "cmp_regular"
      [] f = "Clutch"            -> "cmp_clutch"
      [] f = "Playoffs"          -> "cmp_playoffs"

DataFields(rec) == DOMAIN rec \ {SeasonKey}

SeasonOf(rec) == rec[SeasonKey][1]

Kinds == IF script = "analyze"
         THEN <<"clutch_base", "clutch_adv", "shot_chart", "regular">>
         ELSE <<"cmp_regular", "cmp_clutch", "cmp_playoffs">>

FieldOfKind(kind) ==
    CASE kind = "clutch_base"  -> "clutch_basic"
      [] kind = "clutch_adv"   -> "clutch_advanced"
      [] kind = "shot_chart"   -> "shot_distance"
      [] kind = "regular"      -> "regular_vs_clutch"
      [] kind = "cmp_regular"  -> "Regular Season"
      [] kind = "cmp_clutch"   -> "Clutch"
      [] kind = "cmp_playoffs" -> "Playoffs"

(* The player was not resolved: no match, or several and a selection that *)
(* is no integer or no index of the list.                                   *)
Unresolved ==
    \/ player_dict = 0
    \/ /\ player_dict > 1
       /\ (~selection.isInt \/ selection.v < 0 \/ selection.v > player_dict - 1)

(* The keys of season_data['shot_distance']. *)
Groups == {"0-3_ft", "3-10_ft", "10-16_ft", "16-23_ft", "23+_ft"}

RECURSIVE SumFrac(_, _)
SumFrac(f, keys) ==
    IF keys = {} THEN Zero
    ELSE LET k == CHOOSE x \in keys : TRUE IN FracAdd(f[k], SumFrac(f, keys \ {k}))

(* x is the assists of the row when its turnovers are zero, and assists    *)
(* over turnovers (by cross-multiplication) otherwise.                     *)
IsRatioOf(x, row) ==
    /\ row.TOV = 0 => x = <<row.AST, 1>>
    /\ row.TOV > 0 => (x[2] > 0 /\ x[1] * row.TOV = row.AST * x[2])

(* The number a string of digits reads as. *)
RECURSIVE Num(_)
Num(s) ==
    IF Len(s) = 0 THEN 0
    ELSE 10 * Num(SubSeq(s, 1, Len(s) - 1)) +
         (CHOOSE d \in 0..9 : Digits[d + 1] = s[Len(s)])

IsDigits(s) == \A k \in 1..Len(s) : \E d \in 1..10 : Digits[d] = s[k]

(* The position in the input list of the season of a record. *)
IndexOf(rec) == CHOOSE p \in 1..Len(seasons) : seasons[p] = SeasonOf(rec)

(* The seasons whose loop iteration is over. *)
Processed == {seasons[j] : j \in 1..(IF i - 1 <= Len(seasons) THEN i - 1 ELSE Len(seasons))}

----------------------------------------------------------------------------
(* C1: a failing per-season request never propagates out of the function   *)
(* (a run that issued a request does not end in an exception), and every   *)
(* season of the input list is attempted exactly once, in list order,      *)
(* whatever failed in earlier seasons: the first requests of the seasons,  *)
(* in the order issued, are a prefix of the season list, and the whole     *)
(* list once the function has returned its results.                        *)
C1_SeasonsAllAttemptedInOrder ==
    LET attempts == Attempts IN
    /\ returned = "raised" => Requests = <<>>
    /\ Len(attempts) <= Len(seasons)
    /\ \A j \in 1..Len(attempts) : attempts[j].season = seasons[j]
    /\ returned = "results" => Len(attempts) = Len(seasons)

(* A run that returned its results although a request of the first season  *)
(* failed, the second season having been attempted after it.               *)
C1_Witness ==
    /\ returned = "results"
    /\ Len(seasons) >= 2
    /\ Answered(FirstKind, seasons[1], "fail")
    /\ Issued(FirstKind, seasons[2])

----------------------------------------------------------------------------
(* C2, as stated: after a failed request the later requests of the same    *)
(* season are still issued, and every section obtained for that season is  *)
(* in the result.                                                          *)
C2_EachRequestWrappedAlone ==
    returned = "results" =>
        \A s \in Processed : \A k \in 1..Len(Kinds) :
            Answered(Kinds[k], s, "fail") =>
                /\ \A k2 \in (k + 1)..Len(Kinds) : Issued(Kinds[k2], s)
                /\ \A k2 \in 1..Len(Kinds) :
                      Answered(Kinds[k2], s, "row") =>
                          /\ HasRecord(s)
                          /\ FieldOfKind(Kinds[k2]) \in DOMAIN RecordOf(s)
                          /\ RecordOf(s)[FieldOfKind(Kinds[k2])] # None

(* C2, amended: compare_net_rating wraps each request alone (a failure     *)
(* leaves its column null, the other two requests are issued and their     *)
(* columns kept).  analyze_clutch_player has two handlers over two         *)
(* requests each: a failed clutch-base or clutch-advanced request ends the *)
(* season (no further request, no record); a failed shot-chart request     *)
(* skips the regular-stats request as well; after a failed shot-chart or   *)
(* regular-stats request the record is appended with the sections obtained *)
(* before the failure.                                                     *)
C2_HandlersAsCoded ==
    \A s \in Processed :
        LET reqs == SeasonRequests(s)
            failed(kind) == AnsweredIn(reqs, kind, "fail")
            row(kind) == AnsweredIn(reqs, kind, "row")
        IN
        /\ script = "compare" =>
              /\ \A k \in 1..3 : IssuedIn(reqs, Kinds[k])
              /\ HasRecord(s)
              /\ \A k \in 1..3 :
                    RecordOf(s)[FieldOfKind(Kinds[k])] # None <=> row(Kinds[k])
        /\ script = "analyze" =>
              /\ (failed("clutch_base") \/ failed("clutch_adv")) =>
                    /\ ~HasRecord(s)
                    /\ ~IssuedIn(reqs, "shot_chart")
                    /\ ~IssuedIn(reqs, "regular")
              /\ failed("clutch_base") => ~IssuedIn(reqs, "clutch_adv")
              /\ failed("shot_chart") => ~IssuedIn(reqs, "regular")
              /\ (failed("shot_chart") \/ failed("regular")) =>
                    /\ HasRecord(s)
                    /\ "clutch_basic" \in DOMAIN RecordOf(s)
                    /\ "clutch_advanced" \in DOMAIN RecordOf(s) <=> row("clutch_adv")
                    /\ "shot_distance" \in DOMAIN RecordOf(s) <=> row("shot_chart")

(* A season of analyze_clutch_player whose regular-stats request failed    *)
(* after the three sections before it were obtained.                       *)
C2_Witness ==
    /\ script = "analyze"
    /\ \E s \in Processed :
          /\ Answered("regular", s, "fail")
          /\ Answered("shot_chart", s, "row")
          /\ Answered("clutch_adv", s, "row")
          /\ HasRecord(s)

----------------------------------------------------------------------------
(* C3, as stated: two endpoint requests are never issued back to back.     *)
C3_NoBackToBackRequests ==
    \A j \in 1..(Len(log) - 1) : ~(log[j].ev = "req" /\ log[j + 1].ev = "req")

(* C3, amended: in analyze_clutch_player a sleep separates every two       *)
(* consecutive requests; in compare_net_rating the one sleep of a season   *)
(* follows its three requests, so a sleep separates the requests of        *)
(* different seasons and the three requests of one season are back to      *)
(* back.                                                                   *)
C3_SleepsAsCoded ==
    /\ script = "analyze" => C3_NoBackToBackRequests
    /\ script = "compare" =>
          /\ \A j \in 1..(Len(log) - 1) :
                (log[j].ev = "req" /\ log[j + 1].ev = "req") =>
                    log[j].season = log[j + 1].season
          /\ \A s \in Processed :
                \E j \in 1..(Len(log) - 3) :
                    /\ log[j] = Req("cmp_regular", s, [out |-> log[j].out])
                    /\ log[j + 1] = Req("cmp_clutch", s, [out |-> log[j + 1].out])
                    /\ log[j + 2] = Req("cmp_playoffs", s, [out |-> log[j + 2].out])
                    /\ log[j + 3] = Sleep(s, 1)

(* A run of analyze_clutch_player that issued all four requests of two     *)
(* seasons.                                                                *)
C3_Witness ==
    /\ script = "analyze"
    /\ returned = "results"
    /\ Len(Requests) >= 9

----------------------------------------------------------------------------
(* C4, as stated: for a shot frame with rows, the pct_fga values stored    *)
(* for the five distance bins sum to 1, whatever the distances of the      *)
(* shots.                                                                  *)
C4_FrequenciesSumToOne ==
    (shot_pc = "done" /\ Len(shot_df) > 0) =>
        /\ DOMAIN shot_distance = Groups
        /\ SumFrac([g \in Groups |-> shot_distance[g].pct_fga], Groups) = One

----------------------------------------------------------------------------
(* C5, as stated: every season average computed in                         *)
(* visualize_player_analysis is the sum of the values added to it divided  *)
(* by the number of records that added a value to that sum, and that       *)
(* number is not zero: the regular and clutch average of every metric, and *)
(* per distance bin the average share of attempts and the average FG%.     *)
C5_AveragesOverContributingSeasons ==
    viz_pc = "done" =>
        /\ HasSection(rvc_vals) =>
              /\ contributed.rvc > 0
              /\ \A m \in metrics :
                    /\ rvc_vals.regular[m] = Frac(regular_avgs[m], contributed.rvc)
                    /\ rvc_vals.clutch[m] = Frac(clutch_avgs[m], contributed.rvc)
        /\ \A d \in DOMAIN dist_vals :
              /\ contributed.pct_fga[d] > 0
              /\ dist_vals[d].pct_fga =
                    FracDiv(distance_data[d].pct_fga, contributed.pct_fga[d])
              /\ dist_vals[d].fg_pct # None =>
                    /\ contributed.fg_pct[d] > 0
                    /\ dist_vals[d].fg_pct =
                          FracDiv(distance_data[d].fg_pct, contributed.fg_pct[d])

----------------------------------------------------------------------------
(* C6: the assist-to-turnover ratio is the assists value when turnovers    *)
(* are zero and assists divided by turnovers otherwise, in the clutch      *)
(* computation and in the regular-season computation.                      *)
C6_AstToTovDefaultsToAssists ==
    /\ ratio_pc \in {"regular", "done"} => IsRatioOf(ast_to_tov.clutch, player_clutch)
    /\ ratio_pc = "done" => IsRatioOf(ast_to_tov.regular, player_regular)

(* Both ratios computed for rows with assists and no turnover. *)
C6_Witness ==
    /\ ratio_pc = "done"
    /\ player_clutch.TOV = 0 /\ player_clutch.AST > 0
    /\ player_regular.TOV = 0 /\ player_regular.AST > 0
    /\ ast_to_tov.clutch = <<player_clutch.AST, 1>>

----------------------------------------------------------------------------
(* C7, as stated: a data field is present in a record only if the request  *)
(* that feeds it returned a row for the player.                            *)
C7_FieldPresentOnlyIfRow ==
    \A rec \in Records : \A f \in DataFields(rec) :
        Answered(FeedOf(f), SeasonOf(rec), "row")

(* C7, amended: in analyze_clutch_player a data field is present only if   *)
(* its request returned a row; in compare_net_rating the three fields are  *)
(* present in every record, and a field holds a value other than None only *)
(* if its request returned a row.                                          *)
C7_FieldsAsCoded ==
    \A rec \in Records :
        LET reqs == SeasonRequests(SeasonOf(rec)) IN
        /\ script = "analyze" =>
              \A f \in DataFields(rec) : AnsweredIn(reqs, FeedOf(f), "row")
        /\ script = "compare" =>
              /\ \A f \in DataFields(rec) :
                    rec[f] # None => AnsweredIn(reqs, FeedOf(f), "row")
              /\ rec \in {results[j] : j \in 1..Len(results)} =>
                    DataFields(rec) = {"Regular Season", "Clutch", "Playoffs"}

(* A record of analyze_clutch_player with a clutch_advanced section, in a  *)
(* run where another season's advanced frame was empty.                    *)
C7_Witness ==
    /\ script = "analyze"
    /\ \E j \in 1..Len(results) : "clutch_advanced" \in DOMAIN results[j]
    /\ \E j \in 1..Len(results) :
          /\ "clutch_advanced" \notin DOMAIN results[j]
          /\ "regular_vs_clutch" \in DOMAIN results[j]

----------------------------------------------------------------------------
(* C8, as stated: between 2 and 4 requests are issued for every season     *)
(* processed.                                                              *)
C8_TwoToFourRequests ==
    \A s \in Processed : Len(SeasonRequests(s)) >= 2 /\ Len(SeasonRequests(s)) <= 4

(* C8, amended: between 1 and 4 requests are issued for every season       *)
(* processed: exactly 3 in compare_net_rating; in analyze_clutch_player 1  *)
(* when the clutch-base request fails or returns no row for the player, 2  *)
(* when the clutch-advanced request fails, 3 when the shot-chart request   *)
(* fails, and 4 otherwise.                                                 *)
C8_OneToFourRequests ==
    \A s \in Processed :
        LET reqs == SeasonRequests(s)
            n == Len(reqs)
        IN
        /\ n >= 1 /\ n <= 4
        /\ script = "compare" => n = 3
        /\ script = "analyze" =>
              n = (IF ~AnsweredIn(reqs, "clutch_base", "row") THEN 1
                   ELSE IF AnsweredIn(reqs, "clutch_adv", "fail") THEN 2
                   ELSE IF AnsweredIn(reqs, "shot_chart", "fail") THEN 3
                   ELSE 4)

(* A processed season of analyze_clutch_player with a single request, whose *)
(* frame had no row for the player, and another with four.                 *)
C8_Witness ==
    /\ script = "analyze"
    /\ \E s \in Processed :
          Len(SeasonRequests(s)) = 1 /\ Answered("clutch_base", s, "empty")
    /\ \E s \in Processed : Len(SeasonRequests(s)) = 4

----------------------------------------------------------------------------
(* C9: no retry.  Within a run no endpoint request (a kind of request for  *)
(* a season, or the player-info request) is issued twice, whether it       *)
(* failed, returned an empty frame or returned a row.                      *)
C9_NoRequestIssuedTwice ==
    LET reqs == Requests IN
    Cardinality({<<reqs[j].kind, reqs[j].season>> : j \in 1..Len(reqs)}) = Len(reqs)

(* A finished run in which one request failed and another returned an      *)
(* empty frame.                                                            *)
C9_Witness ==
    /\ returned = "results"
    /\ \E j \in 1..Len(log) : log[j].ev = "req" /\ log[j].out = "fail"
    /\ \E j \in 1..Len(log) : log[j].ev = "req" /\ log[j].out = "empty"

----------------------------------------------------------------------------
(* C10: when the player is not resolved (no match, or several matches and  *)
(* a selection that is not an integer or not in 0..matches-1) the function *)
(* returns None, issues no endpoint request and does not plot; in          *)
(* analyze_clutch_player a failed or empty player-info request also ends   *)
(* in None, with no per-season request and no plot.                        *)
C10_UnresolvedReturnsNone ==
    /\ (pc # "resolve" /\ Unresolved) =>
          /\ returned = "None"
          /\ Requests = <<>>
          /\ plotted = 0
    /\ (Answered("player_info", 0, "fail") \/ Answered("player_info", 0, "empty")) =>
          /\ script = "analyze"
          /\ returned = "None"
          /\ Len(Requests) = 1
          /\ plotted = 0

(* Several players matched and the number typed is the number of matches,  *)
(* one past the last index.                                                *)
C10_Witness ==
    /\ pc = "done"
    /\ player_dict > 1
    /\ selection.isInt
    /\ selection.v = player_dict
    /\ returned = "None"

----------------------------------------------------------------------------
(* C11: one linear flow, resolve the player, loop over the seasons, plot.  *)
(* No endpoint request is in the log while the player id is unresolved;    *)
(* the plotting function is called at most once, and only when the loop    *)
(* has gone through the whole season list (every season was attempted and  *)
(* no request follows the call); analyze_clutch_player calls it only when  *)
(* results['clutch_stats'] holds at least one record.                      *)
C11_ResolveThenLoopThenPlot ==
    /\ Requests # <<>> => (player_id # NoPlayer /\ ~Unresolved)
    /\ plotted <= 1
    /\ plotted = 1 =>
          /\ pc = "done"
          /\ i = Len(seasons) + 1
          /\ Len(Attempts) = Len(seasons)
    /\ pc # "done" => plotted = 0
    /\ (script = "analyze" /\ plotted = 1) => Len(results) >= 1
    /\ (script = "analyze" /\ returned = "results") =>
          (plotted = 1 <=> Len(results) >= 1)

(* A run of analyze_clutch_player over two seasons that ended without a    *)
(* record and without a plot.                                              *)
C11_Witness ==
    /\ script = "analyze"
    /\ returned = "results"
    /\ Len(seasons) = 2
    /\ Len(Attempts) = 2
    /\ results = <<>>
    /\ plotted = 0

----------------------------------------------------------------------------
(* C12: when seasons is None the list used is five seasons, consecutive    *)
(* and ascending, each written as the four digits of its start year, a     *)
(* dash and the last two digits of the following year, the last one being  *)
(* the season that ends in current_year: 2023-24 for current_year = 2024.  *)
C12_DefaultIsLastFiveSeasons ==
    (seasons_pc = "done" /\ ~seasons_arg.given) =>
        /\ Len(season_list) = 5
        /\ \A k \in 1..5 :
              LET s == season_list[k]
                  start == current_year - 6 + k
              IN /\ Len(s) = 7
                 /\ s[5] = "-"
                 /\ IsDigits(SubSeq(s, 1, 4)) /\ IsDigits(SubSeq(s, 6, 7))
                 /\ Num(SubSeq(s, 1, 4)) = start
                 /\ Num(SubSeq(s, 6, 7)) = (start + 1) % 100
        /\ current_year = CurrentYear =>
              season_list[5] = <<"2", "0", "2", "3", "-", "2", "4">>

(* The default list of the code as it stands, from 2019-20 to 2023-24.     *)
C12_Witness ==
    /\ seasons_pc = "done"
    /\ ~seasons_arg.given
    /\ current_year = CurrentYear
    /\ season_list = << <<"2", "0", "1", "9", "-", "2", "0">>,
                        <<"2", "0", "2", "0", "-", "2", "1">>,
                        <<"2", "0", "2", "1", "-", "2", "2">>,
                        <<"2", "0", "2", "2", "-", "2", "3">>,
                        <<"2", "0", "2", "3", "-", "2", "4">> >>

----------------------------------------------------------------------------
(* C13: once the player is resolved, compare_net_rating builds one row per *)
(* season of the input list, in input order, whatever requests fail or     *)
(* return an empty frame: after each season's iteration the rows are those *)
(* of the seasons gone through, and all of the list at the end.  A row     *)
(* holds the season and the three columns Regular Season, Clutch and       *)
(* Playoffs; each column is the NET_RATING fetched for that season and     *)
(* season type if its request returned a row, and None otherwise,          *)
(* whatever the other two requests of the season returned.                 *)
C13_OneRowPerSeason ==
    script = "compare" =>
        /\ pc = "loop" => Len(results) = i - 1
        /\ Len(results) <= Len(seasons)
        /\ returned \in {"results", "raised"} => Len(results) = Len(seasons)
        /\ \A j \in 1..Len(results) :
              LET reqs == SeasonRequests(seasons[j]) IN
              /\ DOMAIN results[j] = {"Season", "Regular Season", "Clutch", "Playoffs"}
              /\ results[j]["Season"] = Some(seasons[j])
              /\ \A k \in 1..3 :
                    results[j][FieldOfKind(Kinds[k])] =
                        IF AnsweredIn(reqs, Kinds[k], "row")
                        THEN Some(NET_RATING(Kinds[k], seasons[j]))
                        ELSE None

(* A finished run over two seasons: in the first the regular-season        *)
(* request failed, the clutch request returned a row and the playoffs      *)
(* frame was empty; in the second only the playoffs request returned a     *)
(* row.                                                                    *)
C13_Witness ==
    /\ script = "compare"
    /\ returned = "results"
    /\ Len(results) = 2
    /\ Answered("cmp_regular", seasons[1], "fail")
    /\ Answered("cmp_playoffs", seasons[1], "empty")
    /\ results[1]["Regular Season"] = None
    /\ results[1]["Clutch"] = Some(NET_RATING("cmp_clutch", seasons[1]))
    /\ results[1]["Playoffs"] = None
    /\ results[2]["Clutch"] = None
    /\ results[2]["Playoffs"] = Some(NET_RATING("cmp_playoffs", seasons[2]))

----------------------------------------------------------------------------
(* C14: at every point of a run of analyze_clutch_player the records of    *)
(* results['clutch_stats'] are seasons of the input list in the order of   *)
(* the list, none twice, all of them gone through by the loop, and every   *)
(* record holds clutch_basic; a season has a record only if its            *)
(* clutch-base request returned a row and neither clutch request failed;   *)
(* a record, appended or under construction, that holds regular_vs_clutch  *)
(* or clutch_advanced also holds clutch_basic.                             *)
C14_RecordsAreSubsequence ==
    script = "analyze" =>
        /\ \A j \in 1..Len(results) :
              LET reqs == SeasonRequests(SeasonOf(results[j])) IN
              /\ \E p \in 1..Len(seasons) : seasons[p] = SeasonOf(results[j])
              /\ IndexOf(results[j]) < i
              /\ j > 1 => IndexOf(results[j - 1]) < IndexOf(results[j])
              /\ "clutch_basic" \in DOMAIN results[j]
              /\ AnsweredIn(reqs, "clutch_base", "row")
              /\ ~AnsweredIn(reqs, "clutch_base", "fail")
              /\ ~AnsweredIn(reqs, "clutch_adv", "fail")
        /\ \A rec \in Records :
              ("regular_vs_clutch" \in DOMAIN rec \/ "clutch_advanced" \in DOMAIN rec) =>
                  "clutch_basic" \in DOMAIN rec

(* A finished run over two seasons whose only record is that of the second *)
(* season: the first season had its clutch_basic section and was dropped   *)
(* when the clutch-advanced request failed.                                *)
C14_Witness ==
    /\ script = "analyze"
    /\ returned = "results"
    /\ Len(seasons) = 2
    /\ Answered("clutch_base", seasons[1], "row")
    /\ Answered("clutch_adv", seasons[1], "fail")
    /\ Len(results) = 1
    /\ SeasonOf(results[1]) = seasons[2]
    /\ "clutch_basic" \in DOMAIN results[1]

----------------------------------------------------------------------------
(* C15, as stated: for a shot frame with rows (every SHOT_DISTANCE is      *)
(* non-negative), every shot is counted in exactly one of the five bins:   *)
(* the attempts stored for the five bins sum to the number of shots of the *)
(* frame, the makes sum to the number of made shots, and in each bin the   *)
(* makes do not exceed the attempts.                                       *)
C15_EveryShotInOneBin ==
    (shot_pc = "done" /\ Len(shot_df) > 0) =>
        /\ DOMAIN shot_distance = Groups
        /\ SumOver([g \in Groups |-> shot_distance[g].fga], Groups) = Len(shot_df)
        /\ SumOver([g \in Groups |-> shot_distance[g].fgm], Groups) =
              SumMade(shot_df, 1..Len(shot_df))
        /\ \A g \in Groups : shot_distance[g].fgm <= shot_distance[g].fga

====
